---- MODULE Spec2Model ----
(***************************************************************************)
(* A model of the reddit_crypto pipeline.                                  *)
(*                                                                         *)
(*   Spec       main.py: the stage dispatcher and the stage functions seen *)
(*              as readers and writers of files.                           *)
(*   SpecClean  clean_and_save_market_data on bounded raw bar series.      *)
(*   SpecUnify  unify_and_save_data on bounded posts and price series.     *)
(*   SpecSweep  run_correlation_sweep on bounded master tables.            *)
(***************************************************************************)
EXTENDS Integers, Sequences, FiniteSets, TLC

VARIABLES
    \* ---- main.py ----
    unifyPkg,   \* the package directory that holds unify_data.py
    args,       \* argparse's args.stages
    pc,         \* position of main()
    files,      \* the file system: path -> Absent or a description of the data
    world,      \* the data the external sources return
    ran,        \* the stages entered so far, in order
    calls,      \* the stage functions called so far, with their outcome
    exc,        \* the exception that ended the run, or "none"
    \* ---- clean_and_save_market_data ----
    cpc, raw, cleaned, recleaned,
    \* ---- unify_and_save_data ----
    upc, posts, btc_df, eth_df, master,
    \* ---- run_correlation_sweep ----
    spc, df, cur, all_results,
    \* ---- fetch_and_save_reddit_data ----
    fpc,        \* position of the function
    reddit,     \* the credentials and what each subreddit's listing yields
    fpos,       \* the subreddit and the post at hand
    seen,       \* the posts read so far, with what get_mentioned_crypto said
    all_posts,  \* the list all_posts
    raw_file,   \* raw_reddit_data.parquet
    \* ---- clean_and_save_reddit_data ----
    rpc, raw_posts, cleaned_posts

mainVars == <<unifyPkg, args, pc, files, world, ran, calls, exc>>
cleanVars == <<cpc, raw, cleaned, recleaned>>
unifyVars == <<upc, posts, btc_df, eth_df, master>>
sweepVars == <<spc, df, cur, all_results>>
fetchVars == <<fpc, reddit, fpos, seen, all_posts, raw_file>>
redditVars == <<rpc, raw_posts, cleaned_posts>>
vars == <<mainVars, cleanVars, unifyVars, sweepVars, fetchVars, redditVars>>

(***************************************************************************)
(* Bounds of the model.                                                    *)
(***************************************************************************)
MaxArgs == 2
MaxRawRows == 3      \* rows of a raw bar series
MaxHour == 2         \* the timestamps of the raw bars are the hours 0..MaxHour
MaxPrice == 2        \* the prices of the raw bars are in 0..MaxPrice
MaxPosts == 2        \* posts of a sentiment file
MaxUnifyHour == 2    \* the cleaned series to unify lie in the hours 0..MaxUnifyHour
TicksPerHour == 2    \* a post's timestamp counts ticks, TicksPerHour to the hour
RowSlack == 8        \* a master table to sweep has MIN_OBS -/+ RowSlack rows
MaxLead == 2         \* rows at the head of a master table with no price yet
MaxFetched == 3      \* posts that the listings of all subreddits yield together
MaxPostId == 2       \* the ids of the posts are 1..MaxPostId
MaxRawPosts == 3     \* posts of a raw post file

\* A cell of a table is a set: empty when the value is missing (NaN), and
\* otherwise the one value it holds. A comparison with a missing value is false.
Null == {}
Val(v) == {v}
IsNull(c) == c = {}
NotNull(c) == c # {}
Lt(a, b) == \E x \in a, y \in b : x < y
Gt(a, b) == \E x \in a, y \in b : x > y
Le(a, b) == \E x \in a, y \in b : x <= y
\* A path that holds no file.
Absent == [exists |-> FALSE, mentions |-> {}, noise |-> FALSE, dups |-> FALSE,
           long |-> FALSE]
Assets == {"BTC", "ETH"}

\* The values the variables of a specification that is not running hold.
MainIdle ==
    /\ unifyPkg = "-" /\ args = <<>> /\ pc = "-" /\ files = <<>>
    /\ world = <<>> /\ ran = <<>> /\ calls = <<>> /\ exc = "none"
CleanIdle == cpc = "-" /\ raw = <<>> /\ cleaned = <<>> /\ recleaned = <<>>
UnifyIdle ==
    /\ upc = "-" /\ posts = <<>> /\ btc_df = <<>> /\ eth_df = <<>>
    /\ master = <<>>
SweepIdle == spc = "-" /\ df = <<>> /\ cur = <<>> /\ all_results = <<>>
FetchIdle ==
    /\ fpc = "-" /\ reddit = <<>> /\ fpos = <<>> /\ seen = <<>>
    /\ all_posts = <<>> /\ raw_file = <<>>
RedditIdle == rpc = "-" /\ raw_posts = <<>> /\ cleaned_posts = <<>>

(***************************************************************************)
(* src/config.py                                                           *)
(***************************************************************************)
Join(dir, name) == dir \o "/" \o name                    \* os.path.join

TICKERS == <<"BTC-USD", "ETH-USD">>
MARKET_DATA_INTERVAL == "1h"
RAW_DATA_DIR == "data/raw"
PROCESSED_DATA_DIR == "data/processed"
RESULTS_DIR == "results"
POST_LIMIT_PER_SUB == "5000"
RAW_BTC_MARKET_DATA_PATH ==
    Join(RAW_DATA_DIR,
         "btc_usd_market_data_" \o MARKET_DATA_INTERVAL \o ".parquet")
RAW_ETH_MARKET_DATA_PATH ==
    Join(RAW_DATA_DIR,
         "eth_usd_market_data_" \o MARKET_DATA_INTERVAL \o ".parquet")
RAW_REDDIT_DATA_PATH ==
    Join(RAW_DATA_DIR,
         "raw_reddit_data_aggressive-praw_limit" \o POST_LIMIT_PER_SUB
             \o ".parquet")
CLEANED_REDDIT_DATA_PATH ==
    Join(PROCESSED_DATA_DIR, "cleaned_reddit_data.parquet")
CLEANED_BTC_MARKET_DATA_PATH ==
    Join(PROCESSED_DATA_DIR,
         "cleaned_btc_market_data_" \o MARKET_DATA_INTERVAL \o ".parquet")
CLEANED_ETH_MARKET_DATA_PATH ==
    Join(PROCESSED_DATA_DIR,
         "cleaned_eth_market_data_" \o MARKET_DATA_INTERVAL \o ".parquet")
PROCESSED_SENTIMENT_DATA_PATH ==
    Join(PROCESSED_DATA_DIR, "sentiment_data.parquet")
MASTER_DATA_PATH == Join(PROCESSED_DATA_DIR, "master_data.parquet")

\* The paths main hands to the stages as inputs.
ConfigPaths ==
    { RAW_BTC_MARKET_DATA_PATH, RAW_ETH_MARKET_DATA_PATH,
      RAW_REDDIT_DATA_PATH, CLEANED_REDDIT_DATA_PATH,
      CLEANED_BTC_MARKET_DATA_PATH, CLEANED_ETH_MARKET_DATA_PATH,
      PROCESSED_SENTIMENT_DATA_PATH, MASTER_DATA_PATH }

(***************************************************************************)
(* File contents, as far as the control flow of the stages depends on      *)
(* them:                                                                   *)
(*   mentions  the assets some post of the file mentions                   *)
(*   noise     every post of the file is removed by the post cleaner       *)
(*   dups      the bar series repeats a timestamp                          *)
(*   long      the series is long enough for some sweep grid point to      *)
(*             keep MIN_OBS paired observations                            *)
(***************************************************************************)
Data ==
    [exists : {TRUE}, mentions : SUBSET Assets \ {{}}, noise : BOOLEAN,
     dups : BOOLEAN, long : BOOLEAN]

Write(fs, path, content) == [fs EXCEPT ![path] = content]

\* What a stage function did: the file system it leaves, how it ended, and
\* the paths it wrote.
Returned(fs, wrote) == [fs |-> fs, outcome |-> "returned", exc |-> "none",
                        wrote |-> wrote]
Raised(fs, e, wrote) == [fs |-> fs, outcome |-> "raised", exc |-> e,
                         wrote |-> wrote]

(***************************************************************************)
(* src/acquisition/fetch_market.py                                         *)
(***************************************************************************)
\* ticker.replace('-','_').lower(), tabulated for the configured tickers.
TickerStem(ticker) ==
    CASE ticker = "BTC-USD" -> "btc_usd"
      [] ticker = "ETH-USD" -> "eth_usd"

MarketFileName(ticker) == TickerStem(ticker) \o "_market_data.parquet"

FetchOutcomes == {"data", "empty", "error"}

\* One ticker of the loop: a download that fails or is empty is reported and
\* skipped, a download with rows is saved.
RECURSIVE FetchTickers(_, _, _, _, _)
FetchTickers(fs, tickers, i, outcome, output_dir) ==
    IF i > Len(tickers) THEN fs
    ELSE LET path == Join(output_dir, MarketFileName(tickers[i]))
             fs1 == IF outcome[i] = "data"
                    THEN Write(fs, path, [world EXCEPT !.noise = FALSE])
                    ELSE fs
         IN  FetchTickers(fs1, tickers, i + 1, outcome, output_dir)

fetch_and_save_market_data(fs, tickers, outcome, output_dir) ==
    LET fs1 == FetchTickers(fs, tickers, 1, outcome, output_dir)
    IN  Returned(fs1, {p \in DOMAIN fs : fs1[p] # fs[p]})

(***************************************************************************)
(* src/acquisition/fetch_reddit.py: the signature, and how a call binds.   *)
(***************************************************************************)
FetchRedditParams == {"subreddits", "keywords", "limit", "output_dir"}

\* Lines 128-130: the file the body writes when it has kept some post.
RedditFileName == "raw_reddit_data.parquet"
fetch_and_save_reddit_data_files(fs, output_dir) ==
    LET out == Join(output_dir, RedditFileName)
    IN  Returned(Write(fs, out, world), {out})

\* Python binds keyword arguments by name: a keyword the signature does not
\* have is a TypeError raised before the body runs.
BindsTo(kwargs, params) == kwargs \subseteq params /\ params \subseteq kwargs

(***************************************************************************)
(* src/processing/clean_reddit_data.py, seen from main                     *)
(***************************************************************************)
clean_and_save_reddit_data_files(fs, input_path, output_dir) ==
    IF fs[input_path] = Absent THEN Returned(fs, {})
    ELSE IF fs[input_path].noise THEN Returned(fs, {})
    ELSE LET out == Join(output_dir, "cleaned_reddit_data.parquet")
         IN  Returned(Write(fs, out, fs[input_path]), {out})

(***************************************************************************)
(* src/processing/clean_market_data.py, seen from main                     *)
(***************************************************************************)
clean_and_save_market_data_files(fs, input_path, output_path) ==
    IF fs[input_path] = Absent THEN Returned(fs, {})
    ELSE IF fs[input_path].dups THEN Raised(fs, "ValueError", {})
    ELSE Returned(Write(fs, output_path, fs[input_path]), {output_path})

(***************************************************************************)
(* src/processing/process_sentiment.py                                     *)
(***************************************************************************)
process_and_save_sentiment(fs, input_path, output_dir) ==
    IF fs[input_path] = Absent THEN Returned(fs, {})
    ELSE LET out == Join(output_dir, "sentiment_data.parquet")
         IN  Returned(Write(fs, out, fs[input_path]), {out})

(***************************************************************************)
(* src/preprocessing/unify_data.py, seen from main                         *)
(***************************************************************************)
unify_and_save_data_files(fs, sentiment_path, btc_path, eth_path, output_dir) ==
    IF \E p \in {sentiment_path, btc_path, eth_path} : fs[p] = Absent
    THEN Returned(fs, {})
    ELSE LET out == Join(output_dir, "master_data.parquet")
             content == [exists |-> TRUE,
                         mentions |-> fs[sentiment_path].mentions,
                         noise |-> FALSE, dups |-> FALSE,
                         long |-> fs[btc_path].long \/ fs[eth_path].long]
         IN  Returned(Write(fs, out, content), {out})

(***************************************************************************)
(* src/analysis/correlation_analysis.py, seen from main                    *)
(***************************************************************************)
run_correlation_sweep_files(fs, data_path, output_dir) ==
    LET out == Join(output_dir, "correlation_results.csv")
    IN  IF fs[data_path] = Absent
        THEN Raised(fs, "FileNotFoundError", {})
        ELSE IF fs[data_path].mentions # Assets
        THEN Raised(fs, "KeyError", {})
        ELSE IF ~fs[data_path].long
        THEN Raised(Write(fs, out, fs[data_path]), "KeyError", {out})
        ELSE Returned(Write(fs, out, fs[data_path]), {out})

\* The files the acquire stage can write.
FetchPaths ==
    { Join(RAW_DATA_DIR, MarketFileName(TICKERS[i])) : i \in 1..Len(TICKERS) }
        \cup { Join(RAW_DATA_DIR, RedditFileName) }

ResultPaths == { Join(RESULTS_DIR, "correlation_results.csv") }

AllPaths == ConfigPaths \cup FetchPaths \cup ResultPaths

(***************************************************************************)
(* main.py                                                                 *)
(***************************************************************************)
StageOrder == <<"acquire", "clean", "process", "analyze">>
StageNames == {StageOrder[i] : i \in 1..Len(StageOrder)}
\* argparse takes any word as a stage (nargs='*', no choices).
ArgWords == StageNames \cup {"bogus"}

\* The packages of the source tree and their modules.
SourceTree(pkg) ==
    { <<"src", "config">>,
      <<"src", "acquisition", "fetch_market">>,
      <<"src", "acquisition", "fetch_reddit">>,
      <<"src", "processing", "process_sentiment">>,
      <<"src", pkg, "unify_data">>,
      <<"src", "processing", "clean_reddit_data">>,
      <<"src", "processing", "clean_market_data">>,
      <<"src", "analysis", "correlation_analysis">> }

\* The modules main.py imports (lines 11-18).
MainImports ==
    { <<"src", "config">>,
      <<"src", "acquisition", "fetch_market">>,
      <<"src", "acquisition", "fetch_reddit">>,
      <<"src", "processing", "process_sentiment">>,
      <<"src", "processing", "unify_data">>,
      <<"src", "processing", "clean_reddit_data">>,
      <<"src", "processing", "clean_market_data">>,
      <<"src", "analysis", "correlation_analysis">> }

InArgs(stage) == \E i \in 1..Len(args) : args[i] = stage
run_all == args = <<>>
Selected(stage) == run_all \/ InArgs(stage)

Record(fn, input_paths, r) ==
    [fn |-> fn,
     missing |-> \E p \in input_paths : files[p] = Absent,
     outcome |-> r.outcome,
     wrote |-> r.wrote]

\* A call of a stage function from main: the files change as the function
\* left them, and an exception it raises ends main.
Call(fn, input_paths, r, next) ==
    /\ files' = r.fs
    /\ calls' = Append(calls, Record(fn, input_paths, r))
    /\ exc' = r.exc
    /\ pc' = IF r.outcome = "raised" THEN "crashed" ELSE next

Import ==
    /\ pc = "import"
    /\ IF MainImports \subseteq SourceTree(unifyPkg)
       THEN pc' = "acquire" /\ exc' = exc
       ELSE pc' = "crashed" /\ exc' = "ModuleNotFoundError"
    /\ UNCHANGED <<unifyPkg, args, files, world, ran, calls>>
    /\ UNCHANGED <<cleanVars, unifyVars, sweepVars, fetchVars, redditVars>>

\* The if of a stage that is not selected.
SkipStage ==
    /\ \E i \in 1..Len(StageOrder) :
          /\ pc = StageOrder[i]
          /\ ~Selected(StageOrder[i])
          /\ pc' = IF i < Len(StageOrder) THEN StageOrder[i + 1]
                   ELSE "finished"
    /\ UNCHANGED <<unifyPkg, args, files, world, ran, calls, exc>>
    /\ UNCHANGED <<cleanVars, unifyVars, sweepVars, fetchVars, redditVars>>

AcquireMarket ==
    /\ pc = "acquire" /\ Selected("acquire")
    /\ ran' = Append(ran, "acquire")
    /\ \E outcome \in [1..Len(TICKERS) -> FetchOutcomes] :
          Call("fetch_and_save_market_data", {},
               fetch_and_save_market_data(files, TICKERS, outcome,
                                          RAW_DATA_DIR),
               "acquire_reddit")
    /\ UNCHANGED <<unifyPkg, args, world>>
    /\ UNCHANGED <<cleanVars, unifyVars, sweepVars, fetchVars, redditVars>>

AcquireReddit ==
    /\ pc = "acquire_reddit"
    /\ LET kwargs == {"subreddits", "keywords", "output_dir",
                      "post_limit_per_sub"}
       IN  IF BindsTo(kwargs, FetchRedditParams)
           THEN Call("fetch_and_save_reddit_data", {},
                     fetch_and_save_reddit_data_files(files, RAW_DATA_DIR),
                     "clean")
           ELSE Call("fetch_and_save_reddit_data", {},
                     Raised(files, "TypeError", {}), "clean")
    /\ UNCHANGED <<unifyPkg, args, world, ran>>
    /\ UNCHANGED <<cleanVars, unifyVars, sweepVars, fetchVars, redditVars>>

CleanReddit ==
    /\ pc = "clean" /\ Selected("clean")
    /\ ran' = Append(ran, "clean")
    /\ Call("clean_and_save_reddit_data", {RAW_REDDIT_DATA_PATH},
            clean_and_save_reddit_data_files(files, RAW_REDDIT_DATA_PATH,
                                             PROCESSED_DATA_DIR),
            "clean_btc")
    /\ UNCHANGED <<unifyPkg, args, world>>
    /\ UNCHANGED <<cleanVars, unifyVars, sweepVars, fetchVars, redditVars>>

CleanBtc ==
    /\ pc = "clean_btc"
    /\ Call("clean_and_save_market_data", {RAW_BTC_MARKET_DATA_PATH},
            clean_and_save_market_data_files(files, RAW_BTC_MARKET_DATA_PATH,
                                             CLEANED_BTC_MARKET_DATA_PATH),
            "clean_eth")
    /\ UNCHANGED <<unifyPkg, args, world, ran>>
    /\ UNCHANGED <<cleanVars, unifyVars, sweepVars, fetchVars, redditVars>>

CleanEth ==
    /\ pc = "clean_eth"
    /\ Call("clean_and_save_market_data", {RAW_ETH_MARKET_DATA_PATH},
            clean_and_save_market_data_files(files, RAW_ETH_MARKET_DATA_PATH,
                                             CLEANED_ETH_MARKET_DATA_PATH),
            "process")
    /\ UNCHANGED <<unifyPkg, args, world, ran>>
    /\ UNCHANGED <<cleanVars, unifyVars, sweepVars, fetchVars, redditVars>>

ProcessSentiment ==
    /\ pc = "process" /\ Selected("process")
    /\ ran' = Append(ran, "process")
    /\ Call("process_and_save_sentiment", {CLEANED_REDDIT_DATA_PATH},
            process_and_save_sentiment(files, CLEANED_REDDIT_DATA_PATH,
                                       PROCESSED_DATA_DIR),
            "unify")
    /\ UNCHANGED <<unifyPkg, args, world>>
    /\ UNCHANGED <<cleanVars, unifyVars, sweepVars, fetchVars, redditVars>>

Unify ==
    /\ pc = "unify"
    /\ Call("unify_and_save_data",
            {PROCESSED_SENTIMENT_DATA_PATH, CLEANED_BTC_MARKET_DATA_PATH,
             CLEANED_ETH_MARKET_DATA_PATH},
            unify_and_save_data_files(files, PROCESSED_SENTIMENT_DATA_PATH,
                                      CLEANED_BTC_MARKET_DATA_PATH,
                                      CLEANED_ETH_MARKET_DATA_PATH,
                                      PROCESSED_DATA_DIR),
            "analyze")
    /\ UNCHANGED <<unifyPkg, args, world, ran>>
    /\ UNCHANGED <<cleanVars, unifyVars, sweepVars, fetchVars, redditVars>>

Analyze ==
    /\ pc = "analyze" /\ Selected("analyze")
    /\ ran' = Append(ran, "analyze")
    /\ Call("run_correlation_sweep", {MASTER_DATA_PATH},
            run_correlation_sweep_files(files, MASTER_DATA_PATH, RESULTS_DIR),
            "finished")
    /\ UNCHANGED <<unifyPkg, args, world>>
    /\ UNCHANGED <<cleanVars, unifyVars, sweepVars, fetchVars, redditVars>>

RECURSIVE SeqsUpTo(_, _)
SeqsUpTo(S, n) ==
    IF n = 0 THEN {<<>>}
    ELSE LET shorter == SeqsUpTo(S, n - 1)
         IN  shorter \cup {Append(s, x) : s \in shorter, x \in S}

\* A file left by an earlier run holds data of the kind the sources return;
\* only a raw bar series can repeat a timestamp, only raw posts can be all
\* noise.
Stored(path, w) ==
    [w EXCEPT !.dups = w.dups /\ path \in {RAW_BTC_MARKET_DATA_PATH,
                                          RAW_ETH_MARKET_DATA_PATH},
              !.noise = w.noise /\ path = RAW_REDDIT_DATA_PATH]

MainInit ==
    /\ unifyPkg \in {"preprocessing", "processing"}
    /\ args \in SeqsUpTo(ArgWords, MaxArgs)
    /\ pc = "import"
    /\ world \in Data
    /\ \E present \in SUBSET ConfigPaths :
          files = [p \in AllPaths |->
                     IF p \in present THEN Stored(p, world) ELSE Absent]
    /\ ran = <<>> /\ calls = <<>> /\ exc = "none"

Init == MainInit /\ CleanIdle /\ UnifyIdle /\ SweepIdle /\ FetchIdle
    /\ RedditIdle

Next ==
    \/ Import \/ SkipStage \/ AcquireMarket \/ AcquireReddit
    \/ CleanReddit \/ CleanBtc \/ CleanEth \/ ProcessSentiment
    \/ Unify \/ Analyze

Spec == Init /\ [][Next]_vars

(***************************************************************************)
(* Claims about main.py, under Spec.                                       *)
(***************************************************************************)
Requested == SelectSeq(StageOrder, LAMBDA s : Selected(s))
IsPrefix(s, t) == Len(s) <= Len(t) /\ SubSeq(t, 1, Len(s)) = s
\* main was entered and has ended, by its last line or by an exception.
MainEnded ==
    \/ pc = "finished"
    \/ pc = "crashed" /\ exc # "ModuleNotFoundError"

\* C1: the stages that run are exactly the requested ones among acquire,
\* clean, process, analyze (all four for an empty argument list), each at
\* most once and in that order, and a stage starts only after the previous
\* call has returned.
C1_StagesRunExactlyAsRequested ==
    /\ IsPrefix(ran, Requested)
    /\ \A i \in 1..(Len(calls) - 1) : calls[i].outcome = "returned"
    /\ MainEnded => ran = Requested

\* A supplement to C1: the order of the stages is the fixed one, whatever
\* the order and repetition of the arguments.
C1_StagesStartInFixedOrder == IsPrefix(ran, Requested)

\* C2: a file-consuming stage whose required input file is absent returns
\* normally, writes no file, and main goes on.
C2_MissingInputIsSkipped ==
    \A i \in 1..Len(calls) :
        calls[i].missing =>
            /\ calls[i].outcome = "returned"
            /\ calls[i].wrote = {}
            /\ (i = Len(calls) => pc # "crashed")

\* C3: no run of main is ended by an exception that escapes a stage.
C3_NoExceptionEscapesAStage ==
    ~(pc = "crashed" /\ exc \in {"TypeError", "ValueError", "KeyError",
                                  "FileNotFoundError"})

(***************************************************************************)
(* src/processing/clean_market_data.py                                     *)
(*                                                                         *)
(* A frame is a sequence of rows [ts, open, high, low, close]: ts is the   *)
(* hour of the index, the other fields are cells.  The volume column is    *)
(* carried like the price columns and only counted (rule 5); it is left    *)
(* out.  A file is [exists, rows].                                         *)
(***************************************************************************)
PriceColumns == {"open", "high", "low", "close"}
NoFile == [exists |-> FALSE, rows |-> <<>>]
FileOf(rows) == [exists |-> TRUE, rows |-> rows]

Hours(frame) == {frame[i].ts : i \in 1..Len(frame)}
IndexMin(frame) == CHOOSE h \in Hours(frame) : \A g \in Hours(frame) : h <= g
IndexMax(frame) == CHOOSE h \in Hours(frame) : \A g \in Hours(frame) : h >= g

\* pd.date_range(start, end, freq='1h')
date_range(start, end) == [i \in 1..(end - start + 1) |-> start + i - 1]

\* df.index.duplicated(keep='first')
duplicated(frame) ==
    [i \in 1..Len(frame) |-> \E j \in 1..(i - 1) : frame[j].ts = frame[i].ts]
HasDuplicates(frame) == \E i \in 1..Len(frame) : duplicated(frame)[i]

NullRow(h) == [ts |-> h, open |-> Null, high |-> Null, low |-> Null,
               close |-> Null]

\* df.reindex(index) of a frame whose index is unique: the row of each label,
\* or a row of missing values.
reindex(frame, index) ==
    [k \in 1..Len(index) |->
        IF \E i \in 1..Len(frame) : frame[i].ts = index[k]
        THEN frame[CHOOSE i \in 1..Len(frame) : frame[i].ts = index[k]]
        ELSE NullRow(index[k])]

\* .ffill(): each column's missing cells take the last value above them.
RECURSIVE LastValid(_, _, _)
LastValid(frame, col, i) ==
    IF i = 0 THEN Null
    ELSE IF NotNull(frame[i][col]) THEN frame[i][col]
    ELSE LastValid(frame, col, i - 1)

ffill(frame) ==
    [i \in 1..Len(frame) |->
        [c \in DOMAIN frame[i] |->
            IF c \in PriceColumns THEN LastValid(frame, c, i)
            ELSE frame[i][c]]]

Mask(frame, keep) ==
    LET Pick[i \in 0..Len(frame)] ==
            IF i = 0 THEN <<>>
            ELSE IF keep[i] THEN Append(Pick[i - 1], frame[i])
            ELSE Pick[i - 1]
    IN  Pick[Len(frame)]

\* Rule 4's test of one row.
invalid_ohlc(r) ==
    \/ Lt(r.high, r.low)
    \/ Lt(r.high, r.open)
    \/ Lt(r.high, r.close)
    \/ Gt(r.low, r.open)
    \/ Gt(r.low, r.close)

\* Rule 3's test of one row.
close_positive(r) == Gt(r.close, Val(0))

\* Rules 1 to 4 on a loaded frame: the frame that is saved.
CleanRules(df0) ==
    LET full_range == date_range(IndexMin(df0), IndexMax(df0))
        df1 == ffill(reindex(df0, full_range))
        df2 == Mask(df1, [i \in 1..Len(df1) |-> ~duplicated(df1)[i]])
        df3 == Mask(df2, [i \in 1..Len(df2) |-> close_positive(df2[i])])
        df4 == Mask(df3, [i \in 1..Len(df3) |-> ~invalid_ohlc(df3[i])])
    IN  df4

\* The whole function: what it returns or raises, and the file it leaves at
\* output_path (NoFile when it writes none).
clean_and_save_market_data(input) ==
    IF ~input.exists
    THEN [outcome |-> "returned", exc |-> "none", out |-> NoFile]
    ELSE IF input.rows = <<>>
    \* the index of an empty frame has no minimum: date_range refuses NaT
    THEN [outcome |-> "raised", exc |-> "ValueError", out |-> NoFile]
    ELSE IF HasDuplicates(input.rows)
    \* reindex refuses an axis with duplicate labels
    THEN [outcome |-> "raised", exc |-> "ValueError", out |-> NoFile]
    ELSE [outcome |-> "returned", exc |-> "none",
          out |-> FileOf(CleanRules(input.rows))]

\* The raw bars: the series a download returns is in time order, has at
\* least one row (fetch_and_save_market_data saves no empty frame), and may
\* repeat a timestamp or miss a cell.
HighValues == {Null} \cup {Val(v) : v \in 1..MaxPrice}
LowValues == {Val(v) : v \in 1..MaxPrice}
CloseValues == {Null} \cup {Val(v) : v \in 0..MaxPrice}
RawBars ==
    [open : {Val(1)}, high : HighValues, low : LowValues, close : CloseValues]

\* The index of a raw series of n rows: hours in time order.
RawIndexes(n) ==
    {ix \in [1..n -> 0..MaxHour] : \A i \in 1..(n - 1) : ix[i] <= ix[i + 1]}

RawSeries(n) ==
    {[i \in 1..n |-> [ts |-> ix[i], open |-> bars[i].open,
                       high |-> bars[i].high, low |-> bars[i].low,
                       close |-> bars[i].close]] :
        ix \in RawIndexes(n), bars \in [1..n -> RawBars]}

CleanInit ==
    /\ cpc = "raw"
    /\ \/ raw = NoFile
       \/ \E n \in 1..MaxRawRows : \E s \in RawSeries(n) : raw = FileOf(s)
    /\ cleaned = <<>>
    /\ recleaned = <<>>

\* clean_and_save_market_data(input_path, output_path, ticker_name)
CleanMarket ==
    /\ cpc = "raw"
    /\ cleaned' = clean_and_save_market_data(raw)
    /\ cpc' = "cleaned"
    /\ UNCHANGED <<raw, recleaned>>
    /\ UNCHANGED <<mainVars, unifyVars, sweepVars, fetchVars, redditVars>>

\* The same function, called on the file the first call wrote.
CleanAgain ==
    /\ cpc = "cleaned"
    /\ cleaned.out.exists
    /\ recleaned' = clean_and_save_market_data(cleaned.out)
    /\ cpc' = "recleaned"
    /\ UNCHANGED <<raw, cleaned>>
    /\ UNCHANGED <<mainVars, unifyVars, sweepVars, fetchVars, redditVars>>

InitClean == MainIdle /\ CleanInit /\ UnifyIdle /\ SweepIdle /\ FetchIdle
    /\ RedditIdle
NextClean == CleanMarket \/ CleanAgain
SpecClean == InitClean /\ [][NextClean]_vars

(***************************************************************************)
(* Claims about clean_and_save_market_data, under SpecClean.               *)
(***************************************************************************)
Written(r) == r # <<>> /\ r.out.exists

\* C4: the written series has unique timestamps, and consecutive timestamps
\* differ by exactly one hour.
C4_CleanedSeriesHasNoGaps ==
    (cpc # "raw" /\ Written(cleaned)) =>
        \A i \in 1..(Len(cleaned.out.rows) - 1) :
            cleaned.out.rows[i + 1].ts = cleaned.out.rows[i].ts + 1

\* C5: every written row has close > 0, low <= open <= high and
\* low <= close <= high.
ValidBar(r) ==
    /\ Gt(r.close, Val(0))
    /\ Le(r.low, r.open) /\ Le(r.open, r.high)
    /\ Le(r.low, r.close) /\ Le(r.close, r.high)

C5_CleanedRowsAreValidBars ==
    (cpc # "raw" /\ Written(cleaned)) =>
        \A i \in 1..Len(cleaned.out.rows) : ValidBar(cleaned.out.rows[i])

\* A supplement to C5: it holds of the raw series that have no missing cell.
NoMissingCell(frame) ==
    \A i \in 1..Len(frame) : \A c \in PriceColumns : NotNull(frame[i][c])

C5_ValidBarsWhenRawHasNoMissingCell ==
    (cpc # "raw" /\ Written(cleaned) /\ NoMissingCell(raw.rows)) =>
        \A i \in 1..Len(cleaned.out.rows) : ValidBar(cleaned.out.rows[i])

\* C6: cleaning the written series again writes the same series.
C6_CleaningIsIdempotent ==
    cpc = "recleaned" =>
        /\ recleaned.outcome = "returned"
        /\ recleaned.out = cleaned.out

(***************************************************************************)
(* src/preprocessing/unify_data.py                                         *)
(*                                                                         *)
(* A post is [post_id, timestamp_utc, mentioned_crypto, sentiment_score]:  *)
(* the timestamp counts ticks, mentioned_crypto is the list the keyword    *)
(* tagger made.  A float is a fraction <<numerator, denominator>> in       *)
(* lowest terms.  A cleaned series is a frame with the column close (the   *)
(* other bar columns are prefixed, joined and filled in the same way).  A  *)
(* column of the master table is <<prefix, name>>, named prefix_name.      *)
(***************************************************************************)
Abs(n) == IF n < 0 THEN -n ELSE n

RECURSIVE GCD(_, _)
GCD(a, b) == IF b = 0 THEN a ELSE GCD(b, a % b)

Frac(num, den) ==
    LET g == GCD(Abs(num), den) IN <<num \div g, den \div g>>
Zero == Frac(0, 1)

RECURSIVE SumOver(_, _)
SumOver(f, S) ==
    IF S = {} THEN 0
    ELSE LET x == CHOOSE y \in S : TRUE IN f[x] + SumOver(f, S \ {x})

Lower(crypto) ==
    CASE crypto = "BTC" -> "btc"
      [] crypto = "ETH" -> "eth"

\* sentiment_df.explode('mentioned_crypto'): one row per post and symbol.
RECURSIVE explode(_)
explode(ps) ==
    IF ps = <<>> THEN <<>>
    ELSE LET p == Head(ps)
         IN  [k \in 1..Len(p.mentioned_crypto) |->
                 [post_id |-> p.post_id, timestamp_utc |-> p.timestamp_utc,
                  mentioned_crypto |-> p.mentioned_crypto[k],
                  sentiment_score |-> p.sentiment_score]]
             \o explode(Tail(ps))

\* The '1h' bin of a timestamp.
HourBin(t) == t \div TicksPerHour

\* groupby('mentioned_crypto').resample('1h').agg(mean, count): for each
\* symbol, one row for every hour from its first post to its last; an hour
\* with no post has a missing mean and a count of 0.
sentiment_agg(ex) ==
    LET syms == {ex[i].mentioned_crypto : i \in 1..Len(ex)}
        bins(c) == {HourBin(ex[i].timestamp_utc) :
                        i \in {j \in 1..Len(ex) : ex[j].mentioned_crypto = c}}
        first(c) == CHOOSE h \in bins(c) : \A g \in bins(c) : h <= g
        last(c) == CHOOSE h \in bins(c) : \A g \in bins(c) : h >= g
        members(c, h) == {i \in 1..Len(ex) :
                             /\ ex[i].mentioned_crypto = c
                             /\ HourBin(ex[i].timestamp_utc) = h}
        score == [i \in 1..Len(ex) |-> ex[i].sentiment_score]
        row(c, h) ==
            [mentioned_crypto |-> c, timestamp_utc |-> h,
             sentiment_mean |->
                 IF members(c, h) = {} THEN Null
                 ELSE Val(Frac(SumOver(score, members(c, h)),
                               Cardinality(members(c, h)))),
             post_count |-> Val(Frac(Cardinality(members(c, h)), 1))]
    IN  UNION { {row(c, h) : h \in first(c)..last(c)} : c \in syms }

\* sentiment_agg.pivot(...), with the columns renamed crypto.lower()_metric.
Metrics == {"sentiment_mean", "post_count"}

sentiment_pivot(agg) ==
    LET index == {r.timestamp_utc : r \in agg}
        columns == {<<Lower(r.mentioned_crypto), m>> : r \in agg, m \in Metrics}
        cell(h, col) ==
            IF \E r \in agg : /\ r.timestamp_utc = h
                              /\ Lower(r.mentioned_crypto) = col[1]
            THEN LET r == CHOOSE q \in agg :
                              /\ q.timestamp_utc = h
                              /\ Lower(q.mentioned_crypto) = col[1]
                 IN  r[col[2]]
            ELSE Null
    IN  [index |-> index, columns |-> columns,
         at |-> [h \in index |-> [col \in columns |-> cell(h, col)]]]

\* The hours of a set in increasing order.
RECURSIVE Sorted(_)
Sorted(S) ==
    IF S = {} THEN <<>>
    ELSE LET h == CHOOSE x \in S : \A y \in S : x <= y
         IN  <<h>> \o Sorted(S \ {h})

CloseAt(frame, h) ==
    IF \E i \in 1..Len(frame) : frame[i].ts = h
    THEN frame[CHOOSE i \in 1..Len(frame) : frame[i].ts = h].close
    ELSE Null

\* btc_df.add_prefix('btc_').join(eth_df.add_prefix('eth_'), how='outer')
market_df(btc, eth) ==
    LET index == Sorted(Hours(btc) \cup Hours(eth))
    IN  [k \in 1..Len(index) |->
            [ts |-> index[k],
             cells |-> (<<"btc", "close">> :> CloseAt(btc, index[k])) @@
                       (<<"eth", "close">> :> CloseAt(eth, index[k]))]]

\* market_df.join(sentiment_pivot, how='left')
left_join(market, pivot) ==
    [k \in 1..Len(market) |->
        [ts |-> market[k].ts,
         cells |-> market[k].cells @@
                   [col \in pivot.columns |->
                       IF market[k].ts \in pivot.index
                       THEN pivot.at[market[k].ts][col]
                       ELSE Null]]]

\* 'sentiment' in col or 'post_count' in col
IsSentimentColumn(col) == col[2] \in {"sentiment_mean", "post_count"}

\* master_df[sentiment_columns].fillna(0)
fillna0(frame) ==
    [k \in 1..Len(frame) |->
        [frame[k] EXCEPT !.cells =
            [col \in DOMAIN frame[k].cells |->
                IF IsSentimentColumn(col) /\ IsNull(frame[k].cells[col])
                THEN Val(Zero)
                ELSE frame[k].cells[col]]]]

\* master_df.ffill()
RECURSIVE LastValidCell(_, _, _)
LastValidCell(frame, col, k) ==
    IF k = 0 THEN Null
    ELSE IF NotNull(frame[k].cells[col]) THEN frame[k].cells[col]
    ELSE LastValidCell(frame, col, k - 1)

ffill_cells(frame) ==
    [k \in 1..Len(frame) |->
        [frame[k] EXCEPT !.cells =
            [col \in DOMAIN frame[k].cells |-> LastValidCell(frame, col, k)]]]

NoTable == [exists |-> FALSE, rows |-> <<>>]

\* The whole function: how it ends and the master file it leaves.
unify_and_save_data(sentiment, btc, eth) ==
    IF ~sentiment.exists \/ ~btc.exists \/ ~eth.exists
    THEN [outcome |-> "returned", out |-> NoTable]
    ELSE LET pivot == sentiment_pivot(sentiment_agg(explode(sentiment.rows)))
             joined == left_join(market_df(btc.rows, eth.rows), pivot)
         IN  [outcome |-> "returned",
              out |-> [exists |-> TRUE,
                       rows |-> ffill_cells(fillna0(joined))]]

\* The inputs. A sentiment file holds at least one post, each mentioning at
\* least one asset (the stages before write nothing else); a cleaned series
\* has increasing hours, possibly with gaps, and positive prices.
Scores == {-1, 0, 1}
MentionLists == {<<"BTC">>, <<"ETH">>, <<"BTC", "ETH">>}

PostSets(n) ==
    {[i \in 1..n |-> [post_id |-> i, timestamp_utc |-> body[i].timestamp_utc,
                      mentioned_crypto |-> body[i].mentioned_crypto,
                      sentiment_score |-> body[i].sentiment_score]] :
        body \in [1..n -> [timestamp_utc :
                               0..((MaxUnifyHour + 1) * TicksPerHour - 1),
                           mentioned_crypto : MentionLists,
                           sentiment_score : Scores]]}

\* The price of the bar of hour h: distinct by hour, so that a carried price
\* is told from a real one.
CleanedSeries ==
    {LET index == Sorted(S)
     IN  [k \in 1..Len(index) |-> [ts |-> index[k], close |-> Val(index[k] + 1)]] :
        S \in SUBSET (0..MaxUnifyHour)}

UnifyInit ==
    /\ upc = "loaded"
    /\ \/ /\ \E n \in 1..MaxPosts : \E ps \in PostSets(n) : posts = FileOf(ps)
          /\ \E b \in CleanedSeries : btc_df = FileOf(b)
          /\ \E e \in CleanedSeries : eth_df = FileOf(e)
       \/ /\ \E gone \in {"sentiment", "btc", "eth"} :
              /\ posts = IF gone = "sentiment" THEN NoFile
                         ELSE FileOf(CHOOSE ps \in PostSets(1) : TRUE)
              /\ btc_df = IF gone = "btc" THEN NoFile ELSE FileOf(<<>>)
              /\ eth_df = IF gone = "eth" THEN NoFile ELSE FileOf(<<>>)
    /\ master = <<>>

\* unify_and_save_data(sentiment_path, btc_path, eth_path, output_dir)
UnifyData ==
    /\ upc = "loaded"
    /\ master' = unify_and_save_data(posts, btc_df, eth_df)
    /\ upc' = "unified"
    /\ UNCHANGED <<posts, btc_df, eth_df>>
    /\ UNCHANGED <<mainVars, cleanVars, sweepVars, fetchVars, redditVars>>

InitUnify == MainIdle /\ CleanIdle /\ UnifyInit /\ SweepIdle /\ FetchIdle
    /\ RedditIdle
NextUnify == UnifyData
SpecUnify == InitUnify /\ [][NextUnify]_vars

(***************************************************************************)
(* Claims about unify_and_save_data, under SpecUnify.                      *)
(***************************************************************************)
MasterWritten == upc = "unified" /\ master.out.exists

\* The posts that mention asset a and whose timestamp lies in [h, h + 1h).
PostsIn(a, h) ==
    {i \in 1..Len(posts.rows) :
        /\ \E k \in 1..Len(posts.rows[i].mentioned_crypto) :
               posts.rows[i].mentioned_crypto[k] = a
        /\ h * TicksPerHour <= posts.rows[i].timestamp_utc
        /\ posts.rows[i].timestamp_utc < (h + 1) * TicksPerHour}

ScoreSum(S) == SumOver([i \in 1..Len(posts.rows) |->
                           posts.rows[i].sentiment_score], S)

\* The aggregate of asset a in a master row is the one of the posts of its hour.
AggregateIsRight(row, a) ==
    LET S == PostsIn(a, row.ts)
        n == Cardinality(S)
        mean_col == <<Lower(a), "sentiment_mean">>
        count_col == <<Lower(a), "post_count">>
    IN  /\ {mean_col, count_col} \subseteq DOMAIN row.cells
        /\ IF n = 0
           THEN row.cells[mean_col] = Val(Zero) /\ row.cells[count_col] = Val(Zero)
           ELSE /\ row.cells[count_col] = Val(<<n, 1>>)
                /\ NotNull(row.cells[mean_col])
                /\ \A m \in row.cells[mean_col] : m[1] * n = ScoreSum(S) * m[2]

PriceHours == Sorted(Hours(btc_df.rows) \cup Hours(eth_df.rows))

\* C7: the master table has exactly one row per hour of the price index, and
\* each asset's sentiment mean and post count at an hour are those of the
\* posts mentioning the asset in that hour, 0 when there is none.
C7_MasterAggregatesPostsPerHour ==
    MasterWritten =>
        /\ [k \in 1..Len(master.out.rows) |-> master.out.rows[k].ts] = PriceHours
        /\ \A k \in 1..Len(master.out.rows) : \A a \in Assets :
               AggregateIsRight(master.out.rows[k], a)

\* A supplement to C7: it holds of the assets that some post mentions.
Mentioned(a) == \E h \in 0..MaxUnifyHour : PostsIn(a, h) # {}

C7_AggregatesOfMentionedAssets ==
    MasterWritten =>
        /\ [k \in 1..Len(master.out.rows) |-> master.out.rows[k].ts] = PriceHours
        /\ \A k \in 1..Len(master.out.rows) : \A a \in Assets :
               Mentioned(a) => AggregateIsRight(master.out.rows[k], a)

\* C8: every master row has a price for every asset.
C8_EveryRowHasEveryPrice ==
    MasterWritten =>
        \A k \in 1..Len(master.out.rows) : \A a \in Assets :
            NotNull(master.out.rows[k].cells[<<Lower(a), "close">>])

\* C9: the master table has the sentiment-mean and post-count columns of
\* every asset, with a value in every row.
C9_EveryAssetHasSentimentColumns ==
    MasterWritten =>
        \A k \in 1..Len(master.out.rows) : \A a \in Assets : \A m \in Metrics :
            /\ <<Lower(a), m>> \in DOMAIN master.out.rows[k].cells
            /\ NotNull(master.out.rows[k].cells[<<Lower(a), m>>])

(***************************************************************************)
(* src/analysis/correlation_analysis.py                                    *)
(*                                                                         *)
(* The table df is [exists, n, cols]: n rows, and for each column name the *)
(* cells of its rows 1..n.  The cell of a column of the master file at row *)
(* t holds <<column, t>>, standing for whatever number is there; a         *)
(* computed cell holds the term that says what it was computed from.  The  *)
(* correlation coefficients, computed by scipy from the paired columns,    *)
(* are not modelled.                                                       *)
(***************************************************************************)
PRICE_HORIZONS == <<1, 4, 6, 12, 24, 72, 168>>
SENTIMENT_WINDOWS == <<1, 4, 6, 12, 24, 72, 168>>
LAGS == <<0, 1, 2, 4, 6, 12>>
CRYPTOS == <<"btc", "eth">>
MIN_OBS == 50

\* A shift in the other direction.
shift_opposite(col, k) ==
    [t \in 1..Len(col) |->
        IF 1 <= t + k /\ t + k <= Len(col) THEN col[t + k] ELSE Null]

price_col(crypto) == crypto \o "_close"
sentiment_col(crypto) == crypto \o "_sentiment_mean"
future_return_col(horizon) == "future_return_" \o ToString(horizon) \o "h"
rolling_col(window) == "sentiment_" \o ToString(window) \o "h_rolling"

Max(a, b) == IF a >= b THEN a ELSE b
Only(c) == CHOOSE x \in c : TRUE

\* Series.pct_change(periods): the change from the row `periods` above.
pct_change(col, periods) ==
    [t \in 1..Len(col) |->
        IF t > periods /\ NotNull(col[t]) /\ NotNull(col[t - periods])
        THEN Val([op |-> "pct_change", from |-> Only(col[t - periods]),
                  to |-> Only(col[t])])
        ELSE Null]

\* Series.shift(k): the value of the row k above (k < 0: below).
shift(col, k) ==
    [t \in 1..Len(col) |->
        IF 1 <= t - k /\ t - k <= Len(col) THEN col[t - k] ELSE Null]

\* Series.rolling(window, min_periods=1).mean(): the mean of the values in
\* the `window` rows that end at the row, when there is at least one.
rolling_mean(col, window) ==
    [t \in 1..Len(col) |->
        LET lo == Max(1, t - window + 1)
        IN  IF \E u \in lo..t : NotNull(col[u])
            THEN Val([op |-> "mean",
                      over |-> <<Only(col[CHOOSE u \in lo..t :
                                          /\ NotNull(col[u])
                                          /\ \A v \in lo..(u - 1) : IsNull(col[v])]),
                                 Only(col[CHOOSE u \in lo..t :
                                          /\ NotNull(col[u])
                                          /\ \A v \in (u + 1)..t : IsNull(col[v])])>>])
            ELSE Null]

\* pd.concat([a, b], axis=1).dropna(): the rows where both have a value.
paired_rows(a, b) == {t \in 1..Len(a) : NotNull(a[t]) /\ NotNull(b[t])}

\* A list that takes each new row at its head.
prepend(results, row) == <<row>> \o results

\* list.append of line 65.
append(results, row) == Append(results, row)

\* A gate that also turns away a sample of exactly MIN_OBS observations.
too_few_or_just_enough(n) == n <= MIN_OBS

\* The test of line 59.
too_few(n) == n < MIN_OBS

HasColumn(table, name) == name \in DOMAIN table.cols

\* An assignment that leaves a column that is already there as it is.
SetColumnIfAbsent(table, name, col) ==
    IF name \in DOMAIN table.cols THEN table
    ELSE [table EXCEPT !.cols = [c \in DOMAIN table.cols \cup {name} |->
                                    IF c = name THEN col ELSE table.cols[c]]]

SetColumn(table, name, col) ==
    [table EXCEPT !.cols = [c \in DOMAIN table.cols \cup {name} |->
                               IF c = name THEN col ELSE table.cols[c]]]

\* The position of the loops: the indexes of the crypto, horizon, window and
\* lag at hand (0: the loop is not entered yet), the grid points done so far,
\* the paired table temp_df of the last of them (hour -> the two values),
\* the csv written and the exception raised.
StartPosition == [c |-> 0, h |-> 0, w |-> 0, l |-> 0, visited |-> <<>>,
                  temp_df |-> <<>>,
                  csv |-> <<>>, saved |-> FALSE, exc |-> "none"]

SweepRaise(e) ==
    /\ spc' = "raised"
    /\ cur' = [cur EXCEPT !.exc = e]

\* Lines 39-41: the master file is read.
SweepLoad ==
    /\ spc = "load"
    /\ IF df.exists
       THEN spc' = "crypto" /\ cur' = cur
       ELSE SweepRaise("FileNotFoundError")
    /\ UNCHANGED <<df, all_results>>
    /\ UNCHANGED <<mainVars, cleanVars, unifyVars, fetchVars, redditVars>>

\* Line 43: the next crypto, or the end of the loops.
NextCrypto ==
    /\ spc = "crypto"
    /\ IF cur.c < Len(CRYPTOS)
       THEN /\ cur' = [cur EXCEPT !.c = cur.c + 1, !.h = 0]
            /\ spc' = "horizon"
       ELSE /\ cur' = cur
            /\ spc' = "save"
    /\ UNCHANGED <<df, all_results>>
    /\ UNCHANGED <<mainVars, cleanVars, unifyVars, fetchVars, redditVars>>

\* Lines 48-49: the next horizon and its future_return column.
NextHorizon ==
    /\ spc = "horizon"
    /\ IF cur.h < Len(PRICE_HORIZONS)
       THEN LET horizon == PRICE_HORIZONS[cur.h + 1]
                name == price_col(CRYPTOS[cur.c])
            IN  IF HasColumn(df, name)
                THEN /\ df' = SetColumn(df, future_return_col(horizon),
                                shift(pct_change(df.cols[name], horizon),
                                      -horizon))
                     /\ cur' = [cur EXCEPT !.h = cur.h + 1, !.w = 0]
                     /\ spc' = "window"
                ELSE /\ SweepRaise("KeyError")
                     /\ df' = df
       ELSE /\ spc' = "crypto"
            /\ UNCHANGED <<df, cur>>
    /\ UNCHANGED all_results
    /\ UNCHANGED <<mainVars, cleanVars, unifyVars, fetchVars, redditVars>>

\* Lines 51-52: the next window and its rolling column.
NextWindow ==
    /\ spc = "window"
    /\ IF cur.w < Len(SENTIMENT_WINDOWS)
       THEN LET window == SENTIMENT_WINDOWS[cur.w + 1]
                name == sentiment_col(CRYPTOS[cur.c])
            IN  IF HasColumn(df, name)
                THEN /\ df' = SetColumn(df, rolling_col(window),
                                rolling_mean(df.cols[name], window))
                     /\ cur' = [cur EXCEPT !.w = cur.w + 1, !.l = 0]
                     /\ spc' = "lag"
                ELSE /\ SweepRaise("KeyError")
                     /\ df' = df
       ELSE /\ spc' = "horizon"
            /\ UNCHANGED <<df, cur>>
    /\ UNCHANGED all_results
    /\ UNCHANGED <<mainVars, cleanVars, unifyVars, fetchVars, redditVars>>

\* Lines 54-75: the next lag: the paired observations, the sample-size gate
\* and the result row.
NextLag ==
    /\ spc = "lag"
    /\ IF cur.l < Len(LAGS)
       THEN LET horizon == PRICE_HORIZONS[cur.h]
                window == SENTIMENT_WINDOWS[cur.w]
                lag == LAGS[cur.l + 1]
                sentiment_series == shift(df.cols[rolling_col(window)], lag)
                price_series == df.cols[future_return_col(horizon)]
                temp_df == paired_rows(sentiment_series, price_series)
                point == [crypto |-> CRYPTOS[cur.c],
                          price_horizon_h |-> horizon,
                          sentiment_window_h |-> window, lag_h |-> lag]
            IN  /\ cur' = [cur EXCEPT !.l = cur.l + 1,
                                      !.visited = Append(cur.visited, point),
                                      !.temp_df =
                                          [t \in temp_df |->
                                              [sentiment |-> sentiment_series[t],
                                               price |-> price_series[t]]]]
                /\ all_results' =
                      IF too_few(Cardinality(temp_df)) THEN all_results
                      ELSE append(all_results,
                                  [crypto |-> point.crypto,
                                   price_horizon_h |-> horizon,
                                   sentiment_window_h |-> window,
                                   lag_h |-> lag,
                                   n_observations |-> Cardinality(temp_df)])
                /\ spc' = spc
       ELSE /\ spc' = "window"
            /\ UNCHANGED <<cur, all_results>>
    /\ UNCHANGED df
    /\ UNCHANGED <<mainVars, cleanVars, unifyVars, fetchVars, redditVars>>

\* Lines 77-92: the results are written, then the significant ones are
\* selected: a table of no rows has no column pearson_p_value.
SweepSave ==
    /\ spc = "save"
    /\ IF all_results = <<>>
       THEN /\ spc' = "raised"
            /\ cur' = [cur EXCEPT !.csv = all_results, !.saved = TRUE,
                                  !.exc = "KeyError"]
       ELSE /\ spc' = "done"
            /\ cur' = [cur EXCEPT !.csv = all_results, !.saved = TRUE]
    /\ UNCHANGED <<df, all_results>>
    /\ UNCHANGED <<mainVars, cleanVars, unifyVars, fetchVars, redditVars>>

\* The master tables: what unify_and_save_data writes. The price columns of
\* both assets, missing only in rows at the head; the sentiment columns of
\* the assets some post mentions, with no missing value.
BaseColumn(name, n, lead) ==
    [t \in 1..n |-> IF t <= lead THEN Null ELSE Val(<<name, t>>)]

MasterTable(n, lead, mentioned) ==
    [exists |-> TRUE, n |-> n,
     cols |-> [name \in {price_col(c) : c \in {"btc", "eth"}}
                        \cup {sentiment_col(c) : c \in mentioned}
                        \cup {c \o "_post_count" : c \in mentioned} |->
                 IF name = "btc_close" THEN BaseColumn(name, n, lead.btc)
                 ELSE IF name = "eth_close" THEN BaseColumn(name, n, lead.eth)
                 ELSE BaseColumn(name, n, 0)]]

Leads ==
    {[btc |-> 0, eth |-> 0]}
        \cup {[btc |-> k, eth |-> 0] : k \in 1..MaxLead}
        \cup {[btc |-> 0, eth |-> k] : k \in 1..MaxLead}

SweepInit ==
    /\ spc = "load"
    /\ \/ df = [exists |-> FALSE, n |-> 0, cols |-> <<>>]
       \/ \E n \in (MIN_OBS - RowSlack)..(MIN_OBS + RowSlack) :
          \E lead \in Leads :
          \E mentioned \in (SUBSET {"btc", "eth"}) \ {{}} :
              df = MasterTable(n, lead, mentioned)
    /\ cur = StartPosition
    /\ all_results = <<>>

InitSweep == MainIdle /\ CleanIdle /\ UnifyIdle /\ SweepInit /\ FetchIdle
    /\ RedditIdle
NextSweep ==
    \/ SweepLoad \/ NextCrypto \/ NextHorizon \/ NextWindow \/ NextLag
    \/ SweepSave
SpecSweep == InitSweep /\ [][NextSweep]_vars

(***************************************************************************)
(* The sample-size gate of the sweep                                       *)
(***************************************************************************)
SweepEnded == spc \in {"save", "done", "raised"} /\ df.exists

GridPointOf(r) ==
    [crypto |-> r.crypto, price_horizon_h |-> r.price_horizon_h,
     sentiment_window_h |-> r.sentiment_window_h, lag_h |-> r.lag_h]

RowsOf(g) == {i \in 1..Len(all_results) : GridPointOf(all_results[i]) = g}

\* The paired observations of a grid point, from the master columns alone:
\* the hours t with a price at t and at t + H, and a sentiment value in the
\* W hours that end L hours before t.
PairedObservations(g) ==
    LET price == df.cols[price_col(g.crypto)]
        sentiment == df.cols[sentiment_col(g.crypto)]
        H == g.price_horizon_h
        W == g.sentiment_window_h
        L == g.lag_h
    IN  {t \in (L + 1)..(df.n - H) :
            /\ NotNull(price[t]) /\ NotNull(price[t + H])
            /\ \E u \in Max(1, t - L - W + 1)..(t - L) : NotNull(sentiment[u])}

MasterColumns ==
    {name \in DOMAIN df.cols :
        \E c \in {"btc", "eth"} :
            name \in {price_col(c), sentiment_col(c), c \o "_post_count"}}

NullFree ==
    \A name \in MasterColumns : \A t \in 1..df.n : NotNull(df.cols[name][t])

\* C10: a grid point the sweep has gone through has a result row exactly
\* when it has at least MIN_OBS paired observations, and the row reports
\* their number; every result row reports at least MIN_OBS observations;
\* and when the master table has no missing value, a row of horizon H and
\* lag L reports N - H - L observations whatever its window.
C10_SampleSizeGate ==
    /\ \A i \in 1..Len(all_results) : all_results[i].n_observations >= MIN_OBS
    /\ (spc # "-" /\ df.exists /\ NullFree) =>
          \A i \in 1..Len(all_results) :
              all_results[i].n_observations
                  = df.n - all_results[i].price_horizon_h - all_results[i].lag_h
    /\ SweepEnded =>
          \A k \in 1..Len(cur.visited) :
              LET g == cur.visited[k]
                  n == Cardinality(PairedObservations(g))
              IN  /\ (RowsOf(g) # {}) <=> (n >= MIN_OBS)
                  /\ \A i \in RowsOf(g) : all_results[i].n_observations = n

\* The sweep of a master table with no missing value has ended with a row
\* of exactly MIN_OBS observations, and has skipped a grid point that had
\* one observation fewer.
C10_GateAtTheThreshold ==
    /\ spc = "done"
    /\ NullFree
    /\ \E i \in 1..Len(all_results) : all_results[i].n_observations = MIN_OBS
    /\ \E k \in 1..Len(cur.visited) :
          /\ RowsOf(cur.visited[k]) = {}
          /\ Cardinality(PairedObservations(cur.visited[k])) = MIN_OBS - 1

(***************************************************************************)
(* The order of the result rows                                            *)
(***************************************************************************)
IndexIn(list, v) == CHOOSE i \in 1..Len(list) : list[i] = v

\* The place of a grid point in the order asset, then H, then W, then L,
\* each in the order of its list.
Rank(g) ==
    ((((IndexIn(CRYPTOS, g.crypto) - 1) * Len(PRICE_HORIZONS)
        + (IndexIn(PRICE_HORIZONS, g.price_horizon_h) - 1))
       * Len(SENTIMENT_WINDOWS)
        + (IndexIn(SENTIMENT_WINDOWS, g.sentiment_window_h) - 1))
      * Len(LAGS))
     + IndexIn(LAGS, g.lag_h)

GridSize == Len(CRYPTOS) * Len(PRICE_HORIZONS) * Len(SENTIMENT_WINDOWS) * Len(LAGS)

CanonicalGrid ==
    [k \in 1..GridSize |->
        LET l == (k - 1) % Len(LAGS)
            w == ((k - 1) \div Len(LAGS)) % Len(SENTIMENT_WINDOWS)
            h == ((k - 1) \div (Len(LAGS) * Len(SENTIMENT_WINDOWS)))
                     % Len(PRICE_HORIZONS)
            c == (k - 1) \div (Len(LAGS) * Len(SENTIMENT_WINDOWS)
                                 * Len(PRICE_HORIZONS))
        IN  [crypto |-> CRYPTOS[c + 1],
             price_horizon_h |-> PRICE_HORIZONS[h + 1],
             sentiment_window_h |-> SENTIMENT_WINDOWS[w + 1],
             lag_h |-> LAGS[l + 1]]]

EnoughObservations(g) == Cardinality(PairedObservations(g)) >= MIN_OBS

\* C11: the result rows are in the order asset, H, W, L of the configured
\* lists with no grid point twice, and the table a completed sweep writes is
\* the one sequence that the master table determines: the grid points with
\* enough observations, in that order, each with its number of observations.
C11_ResultRowsInCanonicalOrder ==
    /\ \A i \in 1..(Len(all_results) - 1) :
          Rank(GridPointOf(all_results[i]))
              < Rank(GridPointOf(all_results[i + 1]))
    /\ spc = "done" =>
          LET expected == SelectSeq(CanonicalGrid, EnoughObservations)
          IN  /\ cur.csv = all_results
              /\ [i \in 1..Len(cur.csv) |-> GridPointOf(cur.csv[i])] = expected
              /\ \A i \in 1..Len(cur.csv) :
                    cur.csv[i].n_observations
                        = Cardinality(PairedObservations(expected[i]))

\* A completed sweep has written rows of both assets, and rows that differ
\* in the horizon, in the window and in the lag.
C11_RowsOfSeveralGridPoints ==
    /\ spc = "done"
    /\ \E i, j \in 1..Len(cur.csv) :
          /\ i < j
          /\ cur.csv[i].crypto = "btc" /\ cur.csv[j].crypto = "eth"
    /\ \E i, j \in 1..Len(cur.csv) :
          /\ i < j
          /\ cur.csv[i].crypto = cur.csv[j].crypto
          /\ cur.csv[i].price_horizon_h # cur.csv[j].price_horizon_h
    /\ \E i, j \in 1..Len(cur.csv) :
          /\ i < j
          /\ cur.csv[i].crypto = cur.csv[j].crypto
          /\ cur.csv[i].price_horizon_h = cur.csv[j].price_horizon_h
          /\ cur.csv[i].sentiment_window_h # cur.csv[j].sentiment_window_h
    /\ \E i \in 1..(Len(cur.csv) - 1) :
          /\ GridPointOf(cur.csv[i])
                = [GridPointOf(cur.csv[i + 1]) EXCEPT !.lag_h = cur.csv[i].lag_h]
          /\ cur.csv[i].lag_h # cur.csv[i + 1].lag_h

(***************************************************************************)
(* src/acquisition/fetch_reddit.py                                         *)
(*                                                                         *)
(* A text is the sequence of its characters.                               *)
(***************************************************************************)
SUBREDDITS == <<"CryptoCurrency", "Bitcoin", "ethereum">>
KEYWORDS ==
    <<[crypto |-> "BTC",
       keys |-> << <<"b", "i", "t", "c", "o", "i", "n">>, <<"b", "t", "c">> >>],
      [crypto |-> "ETH",
       keys |-> << <<"e", "t", "h", "e", "r", "e", "u", "m">>,
                   <<"e", "t", "h">>,
                   <<"e", "t", "h", "e", "r">> >>]>>

UpperCase == <<"A", "B", "C", "D", "E", "F", "G", "H", "I", "J", "K", "L", "M",
               "N", "O", "P", "Q", "R", "S", "T", "U", "V", "W", "X", "Y", "Z">>
LowerCase == <<"a", "b", "c", "d", "e", "f", "g", "h", "i", "j", "k", "l", "m",
               "n", "o", "p", "q", "r", "s", "t", "u", "v", "w", "x", "y", "z">>

\* str.lower()
lower(text) ==
    [i \in 1..Len(text) |->
        IF \E k \in 1..Len(UpperCase) : UpperCase[k] = text[i]
        THEN LowerCase[CHOOSE k \in 1..Len(UpperCase) : UpperCase[k] = text[i]]
        ELSE text[i]]

\* key in text
In(key, text) ==
    \E i \in 1..(Len(text) - Len(key) + 1) :
        SubSeq(text, i, i + Len(key) - 1) = key

\* What get_mentioned_crypto returns: None or a list of symbols.
None == [is_none |-> TRUE, symbols |-> <<>>]
List(symbols) == [is_none |-> FALSE, symbols |-> symbols]
Truthy(r) == ~r.is_none /\ r.symbols # <<>>

\* A variant that answers a text of no keyword with the empty list.
get_mentioned_crypto_or_empty(text, keywords) ==
    List(SelectSeq([k \in 1..Len(keywords) |->
                       IF \E j \in 1..Len(keywords[k].keys) :
                              In(keywords[k].keys[j], lower(text))
                       THEN keywords[k].crypto ELSE "-"],
                   LAMBDA c : c # "-"))

\* Lines 37-39: the loop over keywords.items(), from item k on.
RECURSIVE MentionedFrom(_, _, _, _)
MentionedFrom(mentioned, text_lower, keywords, k) ==
    IF k > Len(keywords) THEN mentioned
    ELSE MentionedFrom(
            IF \E j \in 1..Len(keywords[k].keys) :
                   In(keywords[k].keys[j], text_lower)
            THEN Append(mentioned, keywords[k].crypto)
            ELSE mentioned,
            text_lower, keywords, k + 1)

get_mentioned_crypto(text, keywords) ==
    LET mentioned == MentionedFrom(<<>>, lower(text), keywords, 1)
    IN  IF mentioned # <<>> THEN List(mentioned) ELSE None

NoRawFile == [exists |-> FALSE, rows |-> <<>>]

\* Lines 73-85: the credentials are read from the environment.
Authenticate ==
    /\ fpc = "auth"
    /\ fpc' = IF reddit.credentials THEN "subreddit" ELSE "returned"
    /\ UNCHANGED <<reddit, fpos, seen, all_posts, raw_file>>
    /\ UNCHANGED <<mainVars, cleanVars, unifyVars, sweepVars, redditVars>>

\* Lines 89-93: the next subreddit, or the end of the loop.
NextSubreddit ==
    /\ fpc = "subreddit"
    /\ IF fpos.sub < Len(SUBREDDITS)
       THEN /\ fpos' = [sub |-> fpos.sub + 1, post |-> 0]
            /\ fpc' = "post"
       ELSE /\ fpos' = fpos
            /\ fpc' = "save"
    /\ UNCHANGED <<reddit, seen, all_posts, raw_file>>
    /\ UNCHANGED <<mainVars, cleanVars, unifyVars, sweepVars, redditVars>>

\* Lines 96-116: the listing yields its next post, ends, or raises; the
\* except clause goes on to the next subreddit.
NextPost ==
    /\ fpc = "post"
    /\ LET sub_name == SUBREDDITS[fpos.sub]
           listing == reddit.listings[fpos.sub]
       IN  IF fpos.post < Len(listing.posts)
           THEN LET post == listing.posts[fpos.post + 1]
                    combined_text == post.title \o <<" ">> \o post.selftext
                    mentioned_cryptos ==
                        get_mentioned_crypto(combined_text, KEYWORDS)
                IN  /\ all_posts' =
                          IF Truthy(mentioned_cryptos)
                          THEN Append(all_posts,
                                      [post_id |-> post.id,
                                       subreddit |-> sub_name,
                                       title |-> post.title,
                                       body |-> post.selftext,
                                       mentioned_crypto |->
                                           mentioned_cryptos.symbols])
                          ELSE all_posts
                    /\ seen' = Append(seen, [subreddit |-> sub_name,
                                             post |-> post,
                                             result |-> mentioned_cryptos])
                    /\ fpos' = [fpos EXCEPT !.post = fpos.post + 1]
                    /\ fpc' = fpc
           ELSE /\ fpc' = "subreddit"
                /\ UNCHANGED <<fpos, seen, all_posts>>
    /\ UNCHANGED <<reddit, raw_file>>
    /\ UNCHANGED <<mainVars, cleanVars, unifyVars, sweepVars, redditVars>>

\* Lines 118-133: nothing is written when no post was kept.
SavePosts ==
    /\ fpc = "save"
    /\ raw_file' = IF all_posts = <<>> THEN raw_file
                   ELSE [exists |-> TRUE, rows |-> all_posts]
    /\ fpc' = "returned"
    /\ UNCHANGED <<reddit, fpos, seen, all_posts>>
    /\ UNCHANGED <<mainVars, cleanVars, unifyVars, sweepVars, redditVars>>

\* What Reddit yields: posts with an id, a title and a text.
Titles == { <<"B", "T", "C">>, <<"h", "i">> }
SelfTexts == { <<>>, <<"T", "e", "t", "h", "e", "r">> }
RedditPosts == [id : 1..MaxPostId, title : Titles, selftext : SelfTexts]

\* The listings of the subreddits: the posts t cut in three, and the
\* subreddits whose listing raises after its posts.
Listings(t, a, b, failing) ==
    [k \in 1..Len(SUBREDDITS) |->
        [posts |-> IF k = 1 THEN SubSeq(t, 1, a)
                   ELSE IF k = 2 THEN SubSeq(t, a + 1, b)
                   ELSE SubSeq(t, b + 1, Len(t)),
         fails |-> k \in failing]]

FetchInit ==
    /\ fpc = "auth"
    /\ \/ \E t \in SeqsUpTo(RedditPosts, MaxFetched) :
          \E a \in 0..Len(t) : \E b \in a..Len(t) :
          \E failing \in SUBSET (1..Len(SUBREDDITS)) :
              reddit = [credentials |-> TRUE,
                        listings |-> Listings(t, a, b, failing)]
       \/ reddit = [credentials |-> FALSE,
                    listings |-> Listings(<<>>, 0, 0, {})]
    /\ fpos = [sub |-> 0, post |-> 0]
    /\ seen = <<>>
    /\ all_posts = <<>>
    /\ raw_file = NoRawFile

InitFetch ==
    MainIdle /\ CleanIdle /\ UnifyIdle /\ SweepIdle /\ FetchInit /\ RedditIdle
NextFetch == Authenticate \/ NextSubreddit \/ NextPost \/ SavePosts
SpecFetch == InitFetch /\ [][NextFetch]_vars

(***************************************************************************)
(* The claims about fetch_and_save_reddit_data                             *)
(***************************************************************************)
\* The text that get_mentioned_crypto works on, in lower case.
LoweredText(post) == lower(post.title \o <<" ">> \o post.selftext)

\* The key occurs in the text at some offset.
OccursIn(key, text) ==
    \E off \in 0..(Len(text) - Len(key)) :
        \A j \in 1..Len(key) : text[off + j] = key[j]

\* The items of the mapping of which some keyword occurs in the post.
MatchingItems(post) ==
    {k \in 1..Len(KEYWORDS) :
        \E j \in 1..Len(KEYWORDS[k].keys) :
            OccursIn(KEYWORDS[k].keys[j], LoweredText(post))}

RowOf(e) ==
    [post_id |-> e.post.id, subreddit |-> e.subreddit, title |-> e.post.title,
     body |-> e.post.selftext, mentioned_crypto |-> e.result.symbols]

Kept(e) == ~e.result.is_none

\* C12: for every post read, get_mentioned_crypto returned None when no
\* keyword occurs in the lowercased text, and otherwise the symbols of the
\* items with a keyword in it, each once, in the order of the mapping; and
\* the posts kept are those for which it did not return None, in the order
\* read.
C12_MentionedSymbolsInMappingOrder ==
    /\ \A i \in 1..Len(seen) :
          LET r == seen[i].result
              items == MatchingItems(seen[i].post)
          IN  IF items = {} THEN r = None
              ELSE /\ ~r.is_none
                   /\ Len(r.symbols) = Cardinality(items)
                   /\ {r.symbols[n] : n \in 1..Len(r.symbols)}
                         = {KEYWORDS[k].crypto : k \in items}
                   /\ \A m, n \in 1..Len(r.symbols) :
                         m < n =>
                            \E k, l \in items :
                                /\ k < l
                                /\ KEYWORDS[k].crypto = r.symbols[m]
                                /\ KEYWORDS[l].crypto = r.symbols[n]
    /\ all_posts = [n \in 1..Len(SelectSeq(seen, Kept)) |->
                       RowOf(SelectSeq(seen, Kept)[n])]

\* The run has read a post that mentions both symbols through upper-case
\* text, kept it, and has read and not kept a post that mentions none.
C12_TwoSymbolsAndNoMatch ==
    /\ fpc = "returned"
    /\ \E i \in 1..Len(seen) : seen[i].result = List(<<"BTC", "ETH">>)
    /\ \E i \in 1..Len(seen) : seen[i].result = None
    /\ Len(all_posts) = Len(seen) - 1

(***************************************************************************)
(* src/processing/clean_reddit_data.py                                     *)
(*                                                                         *)
(* A post is [post_id, title, body]; the title is a text and the body a    *)
(* cell, Null when the post has no body.                                   *)
(***************************************************************************)
REMOVED == <<"[", "r", "e", "m", "o", "v", "e", "d", "]">>
DELETED == <<"[", "d", "e", "l", "e", "t", "e", "d", "]">>
HTTP == <<"h", "t", "t", "p">>

\* Series.isin(values): a missing value is in no list.
isin(cell, values) == \E v \in values : cell = Val(v)

\* A search that tells upper case from lower case.
str_contains_case(cell, pat) ==
    IF IsNull(cell) THEN FALSE ELSE In(pat, Only(cell))

\* Series.str.contains(pat, case=False, na=False)
str_contains(cell, pat) ==
    IF IsNull(cell) THEN FALSE ELSE In(lower(pat), lower(Only(cell)))

\* Series.fillna('')
fillna_empty(cell) == IF IsNull(cell) THEN Val(<<>>) ELSE cell

\* Line 43.
NotRemoved(post) == ~isin(post.body, {REMOVED, DELETED})

\* Lines 48-49.
NoUrl(post) ==
    /\ ~str_contains(Val(post.title), HTTP)
    /\ ~str_contains(fillna_empty(post.body), HTTP)

NoPostFile == [exists |-> FALSE, rows |-> <<>>]

clean_and_save_reddit_data(input) ==
    IF ~input.exists THEN NoPostFile
    ELSE LET rows_after_removed == SelectSeq(input.rows, NotRemoved)
             rows_after_urls == SelectSeq(rows_after_removed, NoUrl)
         IN  IF Len(rows_after_urls) = 0 THEN NoPostFile
             ELSE [exists |-> TRUE, rows |-> rows_after_urls]

CleanPosts ==
    /\ rpc = "start"
    /\ cleaned_posts' = clean_and_save_reddit_data(raw_posts)
    /\ rpc' = "returned"
    /\ UNCHANGED raw_posts
    /\ UNCHANGED <<mainVars, cleanVars, unifyVars, sweepVars, fetchVars>>

\* The raw post files: posts numbered in the order of the file.
RawTitles == { <<"b", "t", "c">>, <<"H", "t", "T", "p", ":">> }
RawBodies ==
    { Null, Val(<<"o", "k">>), Val(REMOVED), Val(DELETED),
      Val(<<"[", "R", "E", "M", "O", "V", "E", "D", "]">>),
      Val(<<"[", "D", "e", "l", "e", "t", "e", "d", "]">>),
      Val(<<"a", " ", "H", "T", "T", "P">>) }

RedditInit ==
    /\ rpc = "start"
    /\ \/ raw_posts = NoPostFile
       \/ \E n \in 1..MaxRawPosts :
          \E titles \in [1..n -> RawTitles] : \E bodies \in [1..n -> RawBodies] :
              raw_posts = [exists |-> TRUE,
                           rows |-> [i \in 1..n |->
                                        [post_id |-> i, title |-> titles[i],
                                         body |-> bodies[i]]]]
    /\ cleaned_posts = NoPostFile

InitReddit ==
    MainIdle /\ CleanIdle /\ UnifyIdle /\ SweepIdle /\ FetchIdle /\ RedditInit
NextReddit == CleanPosts
SpecReddit == InitReddit /\ [][NextReddit]_vars

(***************************************************************************)
(* The claims about clean_and_save_reddit_data                             *)
(***************************************************************************)
BodyText(post) == IF IsNull(post.body) THEN <<>> ELSE Only(post.body)

HasUrlMarker(post) ==
    \/ OccursIn(HTTP, lower(post.title))
    \/ OccursIn(HTTP, lower(BodyText(post)))

CleanedRows == cleaned_posts.rows

\* C13: a post of the raw file is in the cleaned posts exactly when its
\* body is neither '[removed]' nor '[deleted]' and neither its title nor its
\* body, taken as empty when absent, contains 'http' in some letter case;
\* the posts kept are in the order of the raw file.
C13_KeptPostsAreTheCleanOnes ==
    (rpc = "returned" /\ raw_posts.exists) =>
        /\ \A i \in 1..Len(raw_posts.rows) :
              LET post == raw_posts.rows[i]
              IN  (\E j \in 1..Len(CleanedRows) : CleanedRows[j] = post)
                     <=> /\ post.body \notin {Val(REMOVED), Val(DELETED)}
                         /\ ~HasUrlMarker(post)
        /\ \A j \in 1..Len(CleanedRows) :
              \E i \in 1..Len(raw_posts.rows) : raw_posts.rows[i] = CleanedRows[j]
        /\ \A j \in 1..(Len(CleanedRows) - 1) :
              CleanedRows[j].post_id < CleanedRows[j + 1].post_id

\* The cleaner has dropped a post between two posts that it kept, one of
\* them without a body.
C13_KeptAroundADroppedPost ==
    /\ rpc = "returned"
    /\ Len(raw_posts.rows) = 3
    /\ Len(CleanedRows) = 2
    /\ CleanedRows[1].post_id = 1 /\ CleanedRows[2].post_id = 3
    /\ IsNull(CleanedRows[1].body)
    /\ raw_posts.rows[2].body = Val(REMOVED)

\* C18: a post whose body is '[removed]' or '[deleted]' in any letter case,
\* or that contains 'http' in any letter case, is not in the cleaned posts.
C18_FiltersIgnoreLetterCase ==
    (rpc = "returned" /\ raw_posts.exists) =>
        \A i \in 1..Len(raw_posts.rows) :
            LET post == raw_posts.rows[i]
            IN  (\/ lower(BodyText(post)) \in {REMOVED, DELETED}
                 \/ HasUrlMarker(post))
                    => \A j \in 1..Len(CleanedRows) : CleanedRows[j] # post

\* A supplement to C18: the URL filter alone ignores the letter case.
C18_UrlFilterIgnoresLetterCase ==
    (rpc = "returned" /\ raw_posts.exists) =>
        \A i \in 1..Len(raw_posts.rows) :
            HasUrlMarker(raw_posts.rows[i])
                => \A j \in 1..Len(CleanedRows) :
                       CleanedRows[j] # raw_posts.rows[i]

(***************************************************************************)
(* Failing subreddits and repeated posts                                   *)
(***************************************************************************)
FetchReturned == fpc = "returned" /\ reddit.credentials

OutputRows == raw_file.rows

Relevant(post) == MatchingItems(post) # {}

\* C14: the output holds no post of a subreddit whose listing raised, and
\* every relevant post of the subreddits whose listing did not.
C14_FailedSubredditIsSkippedWhole ==
    FetchReturned =>
        \A k \in 1..Len(SUBREDDITS) :
            IF reddit.listings[k].fails
            THEN \A j \in 1..Len(OutputRows) :
                     OutputRows[j].subreddit # SUBREDDITS[k]
            ELSE \A i \in 1..Len(reddit.listings[k].posts) :
                     LET post == reddit.listings[k].posts[i]
                     IN  Relevant(post) =>
                            \E j \in 1..Len(OutputRows) :
                                /\ OutputRows[j].subreddit = SUBREDDITS[k]
                                /\ OutputRows[j].post_id = post.id
                                /\ OutputRows[j].title = post.title
                                /\ OutputRows[j].body = post.selftext

\* A supplement to C14: the subreddits after a failed one are read, and the
\* relevant posts of those that did not fail are in the output.
C14_OtherSubredditsProceed ==
    FetchReturned =>
        \A k \in 1..Len(SUBREDDITS) :
            ~reddit.listings[k].fails =>
                \A i \in 1..Len(reddit.listings[k].posts) :
                    LET post == reddit.listings[k].posts[i]
                    IN  Relevant(post) =>
                           \E j \in 1..Len(OutputRows) :
                               /\ OutputRows[j].subreddit = SUBREDDITS[k]
                               /\ OutputRows[j].post_id = post.id
                               /\ OutputRows[j].title = post.title
                               /\ OutputRows[j].body = post.selftext

\* C15: the output has at most one row per post id, the row of the first
\* relevant post read with that id.
C15_OneRowPerPostId ==
    FetchReturned =>
        /\ \A i, j \in 1..Len(OutputRows) :
              OutputRows[i].post_id = OutputRows[j].post_id => i = j
        /\ \A j \in 1..Len(OutputRows) :
              LET first == CHOOSE n \in 1..Len(seen) :
                              /\ Kept(seen[n])
                              /\ seen[n].post.id = OutputRows[j].post_id
                              /\ \A m \in 1..(n - 1) :
                                    Kept(seen[m]) =>
                                        seen[m].post.id # seen[n].post.id
              IN  OutputRows[j] = RowOf(seen[first])

(***************************************************************************)
(* What an observation is computed from                                    *)
(***************************************************************************)
\* The grid point whose paired table temp_df is.
LastPoint == cur.visited[Len(cur.visited)]
HasPairedTable == spc # "-" /\ df.exists /\ cur.visited # <<>>

\* C16: the observation paired at hour t for horizon H, window W and lag L
\* is the mean of the sentiment over the hours max(1, t-L-W+1) .. t-L and
\* the change of the price from hour t to hour t+H.
C16_ObservationWindowAndHorizon ==
    HasPairedTable =>
        \A t \in DOMAIN cur.temp_df :
            LET x == Only(cur.temp_df[t].sentiment)
                y == Only(cur.temp_df[t].price)
                H == LastPoint.price_horizon_h
                W == LastPoint.sentiment_window_h
                L == LastPoint.lag_h
            IN  /\ x.op = "mean"
                /\ x.over[1][2] = Max(1, t - L - W + 1)
                /\ x.over[2][2] = t - L
                /\ y.op = "pct_change"
                /\ y.from[2] = t
                /\ y.to[2] = t + H

\* A grid point with a lag and a window of several hours has paired an hour
\* whose window is cut by the start of the table and an hour whose window is
\* whole.
C16_LaggedWindowObserved ==
    /\ HasPairedTable
    /\ LastPoint.lag_h = 2 /\ LastPoint.sentiment_window_h = 4
    /\ LastPoint.price_horizon_h = 6
    /\ \E t \in DOMAIN cur.temp_df : t - 2 - 4 + 1 < 1
    /\ \E t \in DOMAIN cur.temp_df : t - 2 - 4 + 1 > 1

\* C20: every observation of a grid point of asset A is computed from A's
\* price and A's sentiment, and the result row it gives is labelled A.
C20_ObservationsOfTheCurrentAsset ==
    HasPairedTable =>
        /\ \A t \in DOMAIN cur.temp_df :
              LET x == Only(cur.temp_df[t].sentiment)
                  y == Only(cur.temp_df[t].price)
              IN  /\ x.over[1][1] = sentiment_col(LastPoint.crypto)
                  /\ x.over[2][1] = sentiment_col(LastPoint.crypto)
                  /\ y.from[1] = price_col(LastPoint.crypto)
                  /\ y.to[1] = price_col(LastPoint.crypto)
        /\ RowsOf(LastPoint) # {} =>
              GridPointOf(all_results[Len(all_results)]) = LastPoint

\* A grid point of eth has paired its observations while the table still
\* holds a future_return column that was computed from the btc price.
C20_StaleColumnOfOtherAsset ==
    /\ HasPairedTable
    /\ LastPoint.crypto = "eth"
    /\ DOMAIN cur.temp_df # {}
    /\ \E horizon \in {PRICE_HORIZONS[i] : i \in 1..Len(PRICE_HORIZONS)} :
          /\ HasColumn(df, future_return_col(horizon))
          /\ \E t \in 1..df.n :
                /\ NotNull(df.cols[future_return_col(horizon)][t])
                /\ Only(df.cols[future_return_col(horizon)][t]).from[1]
                       = "btc_close"

(***************************************************************************)
(* A sweep in which no grid point has enough observations                  *)
(***************************************************************************)
\* C17: when the sweep has gone through the whole grid and every grid point
\* was below the threshold, it ends without an exception, having written a
\* result table of no rows.
C17_EmptySweepEndsNormally ==
    (/\ spc \in {"done", "raised"}
     /\ Len(cur.visited) = GridSize
     /\ all_results = <<>>)
        => /\ spc = "done"
           /\ cur.exc = "none"
           /\ cur.saved /\ cur.csv = <<>>

(***************************************************************************)
(* A raw bar series that repeats a timestamp                               *)
(***************************************************************************)
RepeatedHours ==
    {raw.rows[i].ts : i \in {k \in 1..Len(raw.rows) :
                                \E m \in 1..Len(raw.rows) :
                                    m # k /\ raw.rows[m].ts = raw.rows[k].ts}}

FirstRawAt(h) ==
    raw.rows[CHOOSE i \in 1..Len(raw.rows) :
                /\ raw.rows[i].ts = h
                /\ \A m \in 1..(i - 1) : raw.rows[m].ts # h]

\* C19: the cleaning of a raw series that repeats a timestamp completes, and
\* its output has exactly one bar at that timestamp, the first of the raw
\* series.
C19_DuplicateTimestampKeepsFirst ==
    (cpc # "raw" /\ raw.exists /\ RepeatedHours # {}) =>
        /\ cleaned.outcome = "returned"
        /\ \A h \in RepeatedHours :
              /\ Cardinality({i \in 1..Len(cleaned.out.rows) :
                                 cleaned.out.rows[i].ts = h}) = 1
              /\ \E i \in 1..Len(cleaned.out.rows) :
                    cleaned.out.rows[i] = FirstRawAt(h)

(***************************************************************************)
(* The hand-off of files between the stages                                *)
(***************************************************************************)
\* The stage functions whose output a later stage reads.
FeedingStages ==
    {"fetch_and_save_market_data", "fetch_and_save_reddit_data",
     "clean_and_save_reddit_data", "clean_and_save_market_data",
     "process_and_save_sentiment", "unify_and_save_data"}

\* C21: every file that a stage writes for a later stage is at a path that
\* main hands to a later stage as its input: the market and post files of
\* the acquire stage are the raw inputs of the clean stage, and likewise
\* from clean to process and from process to analyze.
C21_StagesHandOffByPath ==
    \A i \in 1..Len(calls) :
        calls[i].fn \in FeedingStages => calls[i].wrote \subseteq ConfigPaths

\* A supplement to C21: the hand-offs from clean to process and from
\* process to analyze are wired by equal paths.
C21_LaterStagesHandOffByPath ==
    \A i \in 1..Len(calls) :
        calls[i].fn \in FeedingStages \ {"fetch_and_save_market_data",
                                         "fetch_and_save_reddit_data"}
            => calls[i].wrote \subseteq ConfigPaths

====
